---- MODULE Spec2Model ----
(***************************************************************************)
(* Access Control Compliance Review Tool (src/src/review.py).              *)
(*                                                                         *)
(* The model follows main(): read_access_list, read_policy_roles,          *)
(* review_access (one step per row of the batch), write_violations,        *)
(* print_summary, return.  Text cells whose characters matter to the code  *)
(* (department names, department_allowed) are sequences of one-character   *)
(* strings; the other cells are strings drawn from small sets.  Time is    *)
(* counted in ticks, TicksPerDay ticks to a day; a date is midnight of its *)
(* day.  A run is a batch of up to MaxRows rows against a catalog of one   *)
(* plain row, or a batch of one row against a catalog of up to             *)
(* MaxPolicyRows rows of any department_allowed of up to MaxRawLen         *)
(* characters.                                                             *)
(***************************************************************************)
EXTENDS Integers, Sequences, FiniteSets, TLC

\* ------------------------------------------------------------------ bounds
MaxRows == 2          \* rows of access_list.csv
MaxPolicyRows == 1    \* rows of policy_roles.csv
MaxRawLen == 2        \* characters of a department_allowed cell
MaxDupRows == 3       \* rows of a batch handed to find_duplicates alone
TicksPerDay == 2      \* clock resolution
stale_days == 1       \* --stale-days as given on the command line
MaxWait == 2          \* ticks that may pass before review_access is called
MaxDrift == 1         \* ticks that may pass before a later read of the clock

\* ------------------------------------------------------- program constants
FirstDataLine == 2    \* enumerate(reader, start=2)

\* ------------------------------------------------------------ text helpers
Range(s) == {s[k] : k \in DOMAIN s}

IsSpace(c) == c = " "

\* str.strip(), left part
RECURSIVE LStrip(_)
LStrip(s) == IF s # <<>> /\ IsSpace(Head(s)) THEN LStrip(Tail(s)) ELSE s

\* str.strip(), right part
RECURSIVE RStrip(_)
RStrip(s) ==
    IF s # <<>> /\ IsSpace(s[Len(s)]) THEN RStrip(SubSeq(s, 1, Len(s) - 1)) ELSE s

Strip(s) == RStrip(LStrip(s))

\* str.split(","): always at least one piece, empty pieces kept
RECURSIVE SplitComma(_)
SplitComma(s) ==
    IF \A k \in DOMAIN s : s[k] # ","
    THEN <<s>>
    ELSE LET p == CHOOSE k \in DOMAIN s :
                      s[k] = "," /\ \A m \in 1..(k - 1) : s[m] # ","
         IN  <<SubSeq(s, 1, p - 1)>> \o SplitComma(SubSeq(s, p + 1, Len(s)))

\* str.lower() on the status cells of the model
Lower(s) ==
    CASE s = "ACTIVE" -> "active"
      [] s = "Inactive" -> "inactive"
      [] OTHER -> s

\* datetime.strptime(raw, "%Y-%m-%d"): <<t>>, t the tick of midnight of the
\* day, or <<>> where strptime raises ValueError
Strptime(raw) ==
    CASE raw = "2026-01-01" -> <<0>>
      [] raw = "2026-01-02" -> <<TicksPerDay>>
      [] OTHER -> <<>>

\* timedelta.days: whole days, rounded towards minus infinity
Days(ticks) == ticks \div TicksPerDay

\* --------------------------------------------------------------- the input
VARIABLES
    access_file,      \* access_list.csv: its header and its rows
    policy_file,      \* policy_roles.csv: its header and its rows
    now,              \* the wall clock (datetime.today()) as last read, in ticks
    pc,               \* the statement main() is at
    access_rows,      \* main: access_rows
    policy_roles,     \* main: policy_roles
    duplicate_pairs,  \* review_access: duplicate_pairs
    stale_cutoff,     \* review_access: stale_cutoff
    reference,        \* what datetime.today() returned for stale_cutoff
    idx,              \* review_access: the row the for loop is at
    violations,       \* review_access: violations
    origin,           \* origin[k] is the row that appended violations[k]
    out_file,         \* the lines of violations.csv, <<>> while it is not written
    stdout,           \* what print_summary reported
    stderr,           \* the error main() printed
    exit_code         \* what main() returned, -1 while it runs

vars == <<access_file, policy_file, now, pc, access_rows, policy_roles,
          duplicate_pairs, stale_cutoff, reference, idx, violations, origin,
          out_file, stdout, stderr, exit_code>>

AccessColumns == {"user_id", "user_name", "department", "role", "status", "last_login"}
PolicyColumns == {"role", "department_allowed", "description"}

UserIds == {"U1", "U2"}
UserName(u) == IF u = "U1" THEN "Ann" ELSE "Bob"
RoleNames == {"analyst", "ghost"}
DepartmentOf(u) == IF u = "U1" THEN <<"f">> ELSE <<" ", "s">>
StatusCells == {"active", "Inactive", "suspended"}
LastLoginCells == {"", "2026-01-01", "bad"}
RawChars == {"f", "*", ","}

\* the sequences over S of length at most n
SeqUpTo(S, n) == UNION {[1..k -> S] : k \in 0..n}

\* the rows of access_list.csv; a user is of one name and one department
AccessCells ==
    {[user_id |-> u, user_name |-> UserName(u), department |-> DepartmentOf(u),
      role |-> r, status |-> s, last_login |-> l] :
        u \in UserIds, r \in RoleNames, s \in StatusCells, l \in LastLoginCells}

\* the rows of policy_roles.csv with department_allowed of at most n
\* characters; a row without a role is rejected before its department_allowed
\* is looked at
PolicyCells(n) ==
    {[role |-> "analyst", department_allowed |-> a, description |-> "d"] :
        a \in SeqUpTo(RawChars, n)}
    \cup {[role |-> "", department_allowed |-> <<"*">>, description |-> "d"]}

\* access_list.csv of at most n rows; a file with a column missing is
\* rejected before its rows are looked at
AccessFiles(n) ==
    {[fieldnames |-> AccessColumns, rows |-> b] : b \in SeqUpTo(AccessCells, n)}
    \cup {[fieldnames |-> AccessColumns \ {c}, rows |-> <<>>] : c \in {"last_login"}}

\* policy_roles.csv of at most n rows, department_allowed of at most m characters
PolicyFiles(n, m) ==
    {[fieldnames |-> PolicyColumns, rows |-> b] : b \in SeqUpTo(PolicyCells(m), n)}
    \cup {[fieldnames |-> PolicyColumns \ {c}, rows |-> <<>>] : c \in {"description"}}

\* access_list.csv without a row or with one row
OneRowAccessFiles ==
    {[fieldnames |-> AccessColumns, rows |-> b] :
        b \in {<<>>} \cup {<<c>> : c \in AccessCells}}
    \cup {[fieldnames |-> AccessColumns \ {c}, rows |-> <<>>] : c \in {"last_login"}}

\* department_allowed as all departments, one department, commas alone, blank
PlainAllowed == {<<"*">>, <<" ", "f">>, <<",">>, <<" ">>}

\* policy_roles.csv without a row or with one row of a plain department_allowed
PlainPolicyFiles ==
    {[fieldnames |-> PolicyColumns, rows |-> b] :
        b \in {<<>>, <<[role |-> "", department_allowed |-> <<"*">>, description |-> "d"]>>}
              \cup {<<[role |-> "analyst", department_allowed |-> a, description |-> "d"]>> :
                        a \in PlainAllowed}}
    \cup {[fieldnames |-> PolicyColumns \ {c}, rows |-> <<>>] : c \in {"description"}}

\* the wall clock when main() is called: one tick before a last_login of
\* 2026-01-01 is at the stale cutoff
StartTick == stale_days * TicksPerDay - 1

\* ---------------------------------------------------------------- loading
\* the last_login cell of a row is text that strptime rejects
InvalidDate(r) == r.last_login # "" /\ Strptime(r.last_login) = <<>>

\* One row of access_list.csv as an AccessRow; last_login is <<>> for None
\* and <<t>> for the datetime of tick t.
AccessRow(r) ==
    LET last_login_raw == r.last_login
    IN  [user_id |-> r.user_id,
         user_name |-> r.user_name,
         department |-> Strip(r.department),
         role |-> r.role,
         status |-> Lower(r.status),
         last_login |-> IF last_login_raw = "" THEN <<>> ELSE Strptime(last_login_raw)]

\* read_access_list: the rows, or the error it raises
read_access_list(file) ==
    LET missing == AccessColumns \ file.fieldnames
        bad == {k \in DOMAIN file.rows : InvalidDate(file.rows[k])}
    IN  IF missing # {}
        THEN [ok |-> FALSE, error |-> "missing columns", line |-> 0, rows |-> <<>>]
        ELSE IF bad # {}
        THEN [ok |-> FALSE, error |-> "invalid date",
              line |-> (CHOOSE k \in bad : \A m \in bad : k <= m) + FirstDataLine - 1,
              rows |-> <<>>]
        ELSE [ok |-> TRUE, error |-> "", line |-> 0, rows |-> [k \in DOMAIN file.rows |-> AccessRow(file.rows[k])]]

\* the allowed_departments of one department_allowed cell, already stripped
AllowedDepartments(dep_raw) ==
    IF dep_raw = <<"*">>
    THEN {<<"*">>}
    ELSE {Strip(d) : d \in Range(SplitComma(dep_raw))} \ {<<>>}

\* the loop of read_policy_roles from row k on, roles being the catalog so far
RECURSIVE PolicyLoop(_, _, _)
PolicyLoop(rows, k, roles) ==
    IF k > Len(rows)
    THEN [ok |-> TRUE, roles |-> roles]
    ELSE LET role == rows[k].role
             dep_raw == Strip(rows[k].department_allowed)
             entry == [role |-> role,
                       allowed_departments |-> AllowedDepartments(dep_raw),
                       description |-> rows[k].description]
         IN  IF role = ""
             THEN [ok |-> FALSE, error |-> "empty role", line |-> k + FirstDataLine - 1]
             ELSE IF dep_raw = <<>>
             THEN [ok |-> FALSE, error |-> "department_allowed is empty",
                   line |-> k + FirstDataLine - 1]
             ELSE PolicyLoop(rows, k + 1,
                     [x \in DOMAIN roles \cup {role} |->
                         IF x = role THEN entry ELSE roles[x]])

\* read_policy_roles: the catalog (a function of the role names), or the error
read_policy_roles(file) ==
    LET missing == PolicyColumns \ file.fieldnames
    IN  IF missing # {}
        THEN [ok |-> FALSE, error |-> "missing columns", line |-> 0]
        ELSE PolicyLoop(file.rows, 1, [x \in {} |-> x])

\* ------------------------------------------------------------- duplicates
\* find_duplicates adding every pair to dups
RECURSIVE DupLoopAddsAll(_, _, _, _)
DupLoopAddsAll(rows, k, seen, dups) ==
    IF k > Len(rows)
    THEN dups
    ELSE LET key == <<rows[k].user_id, rows[k].role>>
         IN  DupLoopAddsAll(rows, k + 1, seen \cup {key}, dups \cup {key})

\* find_duplicates remembering only the pair of the row before
RECURSIVE DupLoopLastOnly(_, _, _, _)
DupLoopLastOnly(rows, k, seen, dups) ==
    IF k > Len(rows)
    THEN dups
    ELSE LET key == <<rows[k].user_id, rows[k].role>>
         IN  IF key \in seen
             THEN DupLoopLastOnly(rows, k + 1, seen, dups \cup {key})
             ELSE DupLoopLastOnly(rows, k + 1, {key}, dups)

\* the loop of find_duplicates from row k on
RECURSIVE DupLoop(_, _, _, _)
DupLoop(rows, k, seen, dups) ==
    IF k > Len(rows)
    THEN dups
    ELSE LET key == <<rows[k].user_id, rows[k].role>>
         IN  IF key \in seen
             THEN DupLoop(rows, k + 1, seen, dups \cup {key})
             ELSE DupLoop(rows, k + 1, seen \cup {key}, dups)

find_duplicates(rows) == DupLoop(rows, 1, {}, {})

\* ------------------------------------------------------------- the rules
Violation(r, issue, severity, details) ==
    [user_id |-> r.user_id, user_name |-> r.user_name, department |-> r.department,
     role |-> r.role, issue |-> issue, severity |-> severity, details |-> details]

\* 1) the role is no key of the catalog
UnknownRole(r, roles) == r.role \notin DOMAIN roles

\* 2) the condition of the department rule, policy being roles[r.role]
NotAllowed(r, policy) ==
    <<"*">> \notin policy.allowed_departments
    /\ r.department \notin policy.allowed_departments

\* the status rules with the inactive rule taking every status but "active"
StatusViolationsNotActive(r) ==
    (IF r.status \notin {"active", "inactive"}
     THEN <<Violation(r, "INVALID_STATUS", "MEDIUM", [got |-> r.status])>>
     ELSE <<>>)
    \o (IF r.status # "active"
        THEN <<Violation(r, "INACTIVE_USER_HAS_ACCESS", "HIGH", [got |-> r.status])>>
        ELSE <<>>)

\* 3) the status rules: at most one violation
StatusViolations(r) ==
    IF r.status \notin {"active", "inactive"}
    THEN <<Violation(r, "INVALID_STATUS", "MEDIUM", [got |-> r.status])>>
    ELSE IF r.status = "inactive"
    THEN <<Violation(r, "INACTIVE_USER_HAS_ACCESS", "HIGH", [got |-> r.status])>>
    ELSE <<>>

\* 4) the duplicate rule
IsDuplicate(r, dups) == <<r.user_id, r.role>> \in dups

\* the stale rule with a last_login at the cutoff counted as stale
IsStaleInclusive(r, cutoff) ==
    r.last_login # <<>> /\ r.last_login[1] <= cutoff /\ r.status = "active"

\* 5) the condition of the stale rule
IsStale(r, cutoff) ==
    r.last_login # <<>> /\ r.last_login[1] < cutoff /\ r.status = "active"

\* stale_cutoff = datetime.today() - timedelta(days=stale_days)
StaleCutoff(today) == today - stale_days * TicksPerDay

\* the row reaches the stale rule and the rule reads the clock for its details
ReadsClock(r, roles, cutoff) == ~UnknownRole(r, roles) /\ IsStale(r, cutoff)

\* the body of the for loop without the continue of the unknown-role rule
RowViolationsNoContinue(r, roles, dups, cutoff, today) ==
    (IF UnknownRole(r, roles)
     THEN <<Violation(r, "UNKNOWN_ROLE", "HIGH", [got |-> r.role])>>
     ELSE IF NotAllowed(r, roles[r.role])
     THEN <<Violation(r, "ROLE_NOT_ALLOWED_FOR_DEPARTMENT", "HIGH",
                      [allowed |-> roles[r.role].allowed_departments])>>
     ELSE <<>>)
    \o StatusViolations(r)
    \o (IF IsDuplicate(r, dups)
        THEN <<Violation(r, "DUPLICATE_USER_ROLE_ENTRY", "LOW", [got |-> r.role])>>
        ELSE <<>>)
    \o (IF IsStale(r, cutoff)
        THEN <<Violation(r, "STALE_ACCOUNT", "LOW",
                         [days |-> Days(today - r.last_login[1]),
                          threshold |-> stale_days])>>
        ELSE <<>>)

\* the body of the for loop with the duplicate rule ahead of the status rules
RowViolationsDuplicateFirst(r, roles, dups, cutoff, today) ==
    IF UnknownRole(r, roles)
    THEN <<Violation(r, "UNKNOWN_ROLE", "HIGH", [got |-> r.role])>>
    ELSE (IF NotAllowed(r, roles[r.role])
          THEN <<Violation(r, "ROLE_NOT_ALLOWED_FOR_DEPARTMENT", "HIGH",
                           [allowed |-> roles[r.role].allowed_departments])>>
          ELSE <<>>)
         \o (IF IsDuplicate(r, dups)
             THEN <<Violation(r, "DUPLICATE_USER_ROLE_ENTRY", "LOW", [got |-> r.role])>>
             ELSE <<>>)
         \o StatusViolations(r)
         \o (IF IsStale(r, cutoff)
             THEN <<Violation(r, "STALE_ACCOUNT", "LOW",
                              [days |-> Days(today - r.last_login[1]),
                               threshold |-> stale_days])>>
             ELSE <<>>)

\* One pass of the body of the for loop: the violations row r appends, today
\* being what datetime.today() returns in the stale rule.
RowViolations(r, roles, dups, cutoff, today) ==
    IF UnknownRole(r, roles)
    THEN <<Violation(r, "UNKNOWN_ROLE", "HIGH", [got |-> r.role])>>
    ELSE (IF NotAllowed(r, roles[r.role])
          THEN <<Violation(r, "ROLE_NOT_ALLOWED_FOR_DEPARTMENT", "HIGH",
                           [allowed |-> roles[r.role].allowed_departments])>>
          ELSE <<>>)
         \o StatusViolations(r)
         \o (IF IsDuplicate(r, dups)
             THEN <<Violation(r, "DUPLICATE_USER_ROLE_ENTRY", "LOW", [got |-> r.role])>>
             ELSE <<>>)
         \o (IF IsStale(r, cutoff)
             THEN <<Violation(r, "STALE_ACCOUNT", "LOW",
                              [days |-> Days(today - r.last_login[1]),
                               threshold |-> stale_days])>>
             ELSE <<>>)

\* ---------------------------------------------------------------- summary
ViolationColumns ==
    <<"user_id", "user_name", "department", "role", "issue", "severity", "details">>

HeaderLine == [c \in Range(ViolationColumns) |-> c]

\* the tallies print_summary prints; with the users of the model its top five
\* are all the users of by_user
Summary(vs) ==
    LET Count(K(_), k) == Cardinality({j \in DOMAIN vs : K(vs[j]) = k})
        Issue(v) == v.issue
        Sev(v) == v.severity
        User(v) == <<v.user_name, v.user_id>>
    IN  [total |-> Len(vs),
         by_issue |-> [k \in {Issue(vs[j]) : j \in DOMAIN vs} |-> Count(Issue, k)],
         by_sev |-> [k \in {Sev(vs[j]) : j \in DOMAIN vs} |-> Count(Sev, k)],
         by_user |-> [k \in {User(vs[j]) : j \in DOMAIN vs} |-> Count(User, k)]]

\* ------------------------------------------------------------------ main
NoCatalog == [x \in {} |-> x]
NoError == [ok |-> TRUE, error |-> "", line |-> 0]
ErrorOf(res) == [ok |-> FALSE, error |-> res.error, line |-> res.line]

Init ==
    /\ \/ /\ access_file \in AccessFiles(MaxRows)
          /\ policy_file \in PlainPolicyFiles
       \/ /\ access_file \in OneRowAccessFiles
          /\ policy_file \in PolicyFiles(MaxPolicyRows, MaxRawLen)
    /\ now = StartTick
    /\ pc = "read_access"
    /\ access_rows = <<>>
    /\ policy_roles = NoCatalog
    /\ duplicate_pairs = {}
    /\ stale_cutoff = 0
    /\ reference = 0
    /\ idx = 0
    /\ violations = <<>>
    /\ origin = <<>>
    /\ out_file = <<>>
    /\ stdout = Summary(<<>>)
    /\ stderr = NoError
    /\ exit_code = -1

\* the except clause returning 0
RaiseReturnsZero(res) ==
    /\ stderr' = ErrorOf(res)
    /\ exit_code' = 0
    /\ pc' = "done"

\* except Exception as e: print the error, return 1
Raise(res) ==
    /\ stderr' = ErrorOf(res)
    /\ exit_code' = 1
    /\ pc' = "done"

\* access_rows = read_access_list(access_path)
ReadAccessList ==
    /\ pc = "read_access"
    /\ LET res == read_access_list(access_file)
       IN  /\ res.ok
           /\ access_rows' = res.rows
    /\ pc' = "read_policy"
    /\ UNCHANGED <<access_file, policy_file, now, policy_roles, duplicate_pairs,
                   stale_cutoff, reference, idx, violations, origin, out_file, stdout, stderr,
                   exit_code>>

ReadAccessListRaises ==
    /\ pc = "read_access"
    /\ LET res == read_access_list(access_file)
       IN  /\ ~res.ok
           /\ Raise(res)
    /\ UNCHANGED <<access_file, policy_file, now, access_rows, policy_roles,
                   duplicate_pairs, stale_cutoff, reference, idx, violations, origin, out_file,
                   stdout>>

\* policy_roles = read_policy_roles(policy_path)
ReadPolicyRoles ==
    /\ pc = "read_policy"
    /\ LET res == read_policy_roles(policy_file)
       IN  /\ res.ok
           /\ policy_roles' = res.roles
    /\ pc' = "review"
    /\ UNCHANGED <<access_file, policy_file, now, access_rows, duplicate_pairs,
                   stale_cutoff, reference, idx, violations, origin, out_file, stdout, stderr,
                   exit_code>>

ReadPolicyRolesRaises ==
    /\ pc = "read_policy"
    /\ LET res == read_policy_roles(policy_file)
       IN  /\ ~res.ok
           /\ Raise(res)
    /\ UNCHANGED <<access_file, policy_file, now, access_rows, policy_roles,
                   duplicate_pairs, stale_cutoff, reference, idx, violations, origin, out_file,
                   stdout>>

\* review_access up to its for loop: the duplicates, and the cutoff from the
\* clock as it stands when the call is made
ReviewStart ==
    /\ pc = "review"
    /\ \E t \in now..(now + MaxWait) :
          /\ now' = t
          /\ reference' = t
          /\ stale_cutoff' = StaleCutoff(t)
    /\ duplicate_pairs' = find_duplicates(access_rows)
    /\ violations' = <<>>
    /\ origin' = <<>>
    /\ idx' = 1
    /\ pc' = "loop"
    /\ UNCHANGED <<access_file, policy_file, access_rows, policy_roles, out_file,
                   stdout, stderr, exit_code>>

\* one row of the for loop; the stale rule reads the clock again
ReviewRow ==
    /\ pc = "loop"
    /\ idx <= Len(access_rows)
    /\ LET r == access_rows[idx]
       IN  \E today \in now..(now + MaxDrift) :
              /\ ReadsClock(r, policy_roles, stale_cutoff) \/ today = now
              /\ now' = today
              /\ LET vs == RowViolations(r, policy_roles, duplicate_pairs,
                                         stale_cutoff, today)
                 IN  /\ violations' = violations \o vs
                     /\ origin' = origin \o [k \in DOMAIN vs |-> idx]
    /\ idx' = idx + 1
    /\ UNCHANGED <<access_file, policy_file, pc, access_rows, policy_roles,
                   duplicate_pairs, stale_cutoff, reference, out_file, stdout, stderr, exit_code>>

\* return violations
ReviewReturn ==
    /\ pc = "loop"
    /\ idx > Len(access_rows)
    /\ pc' = "write"
    /\ UNCHANGED <<access_file, policy_file, now, access_rows, policy_roles,
                   duplicate_pairs, stale_cutoff, reference, idx, violations, origin, out_file,
                   stdout, stderr, exit_code>>

\* write_violations(out_path, violations): the header, then a line a violation
WriteViolations ==
    /\ pc = "write"
    /\ out_file' = <<HeaderLine>> \o violations
    /\ pc' = "summary"
    /\ UNCHANGED <<access_file, policy_file, now, access_rows, policy_roles,
                   duplicate_pairs, stale_cutoff, reference, idx, violations, origin, stdout,
                   stderr, exit_code>>

\* write_violations raises before a line is written (mkdir or open fails)
WriteViolationsRaises ==
    /\ pc = "write"
    /\ Raise([error |-> "OSError", line |-> 0])
    /\ UNCHANGED <<access_file, policy_file, now, access_rows, policy_roles,
                   duplicate_pairs, stale_cutoff, reference, idx, violations, origin, out_file,
                   stdout>>

\* print_summary(violations)
PrintSummary ==
    /\ pc = "summary"
    /\ stdout' = Summary(violations)
    /\ pc' = "return"
    /\ UNCHANGED <<access_file, policy_file, now, access_rows, policy_roles,
                   duplicate_pairs, stale_cutoff, reference, idx, violations, origin, out_file,
                   stderr, exit_code>>

\* return 0
Return ==
    /\ pc = "return"
    /\ exit_code' = 0
    /\ pc' = "done"
    /\ UNCHANGED <<access_file, policy_file, now, access_rows, policy_roles,
                   duplicate_pairs, stale_cutoff, reference, idx, violations, origin, out_file,
                   stdout, stderr>>

Next ==
    \/ ReadAccessList
    \/ ReadAccessListRaises
    \/ ReadPolicyRoles
    \/ ReadPolicyRolesRaises
    \/ ReviewStart
    \/ ReviewRow
    \/ ReviewReturn
    \/ WriteViolations
    \/ WriteViolationsRaises
    \/ PrintSummary
    \/ Return

Spec == Init /\ [][Next]_vars

\* ------------------------------------------------------------ vocabulary
\* the rows the for loop of review_access has been through
Processed == 1..(idx - 1)

\* the positions in violations of the violations row j appended
At(j) == {k \in DOMAIN violations : origin[k] = j}

Issues(j) == {violations[k].issue : k \in At(j)}

\* how many violations of the issue row j appended
Times(j, issue) == Cardinality({k \in At(j) : violations[k].issue = issue})

Known(j) == access_rows[j].role \in DOMAIN policy_roles

\* how often the (user_id, role) pair of row j occurs in the batch
PairCount(j) ==
    Cardinality({m \in DOMAIN access_rows :
                    /\ access_rows[m].user_id = access_rows[j].user_id
                    /\ access_rows[m].role = access_rows[j].role})

\* the review is over and its result is what main() holds
Reviewed == pc = "write"

\* ------------------------------------------------------------------- C1
\* C1: a row whose role is no key of the catalog yields exactly one
\* violation, UNKNOWN_ROLE of severity HIGH, and nothing from the other rules.
C1_UnknownRoleAlone ==
    \A j \in Processed :
        ~Known(j) =>
            /\ Cardinality(At(j)) = 1
            /\ \A k \in At(j) :
                  /\ violations[k].issue = "UNKNOWN_ROLE"
                  /\ violations[k].severity = "HIGH"

\* an unknown-role row that the status and duplicate rules would have flagged
C1_Witness ==
    /\ Reviewed
    /\ \E j \in Processed :
          /\ ~Known(j)
          /\ access_rows[j].status = "inactive"
          /\ PairCount(j) >= 2
          /\ Issues(j) = {"UNKNOWN_ROLE"}

\* ------------------------------------------------------------------- C2
\* C2 as stated: every row whose (user_id, role) pair occurs k >= 2 times in
\* the batch gets DUPLICATE_USER_ROLE_ENTRY (so exactly k rows of the pair
\* get it), a row whose pair occurs once gets none, for every catalog.
C2_AsStated ==
    \A j \in Processed :
        Times(j, "DUPLICATE_USER_ROLE_ENTRY") = (IF PairCount(j) >= 2 THEN 1 ELSE 0)

\* C2 amended: the above for the rows whose role is a key of the catalog; a
\* row whose role is unknown never gets DUPLICATE_USER_ROLE_ENTRY.
C2_DuplicatesOfKnownRoles ==
    \A j \in Processed :
        Times(j, "DUPLICATE_USER_ROLE_ENTRY")
            = (IF Known(j) /\ PairCount(j) >= 2 THEN 1 ELSE 0)

\* the rows of a batch all of one pair, all flagged, the catalog knowing the
\* role
C2_Witness ==
    /\ Reviewed
    /\ Len(access_rows) = MaxRows
    /\ \A j \in Processed :
          /\ Known(j)
          /\ PairCount(j) = MaxRows
          /\ Times(j, "DUPLICATE_USER_ROLE_ENTRY") = 1

\* ------------------------------------------------------------------- C3
\* the stale condition of the claim, on the timestamp the pass started with
StaleByClaim(j) ==
    /\ access_rows[j].status = "active"
    /\ access_rows[j].last_login # <<>>
    /\ access_rows[j].last_login[1] + stale_days * TicksPerDay < reference

\* C3 as stated: every row gets STALE_ACCOUNT iff its status is "active" and
\* its last_login is present and strictly earlier than the reference time
\* minus stale_days.
C3_AsStated ==
    \A j \in Processed : ("STALE_ACCOUNT" \in Issues(j)) <=> StaleByClaim(j)

\* C3 amended: the above for the rows whose role is a key of the catalog, each
\* flagged once; a row whose role is unknown never gets STALE_ACCOUNT.
C3_StaleOfKnownRoles ==
    \A j \in Processed :
        Times(j, "STALE_ACCOUNT") = (IF Known(j) /\ StaleByClaim(j) THEN 1 ELSE 0)

\* a flagged row and an inactive row of the same last_login, not flagged
C3_Witness ==
    /\ Reviewed
    /\ \E j, m \in Processed :
          /\ Known(j) /\ "STALE_ACCOUNT" \in Issues(j)
          /\ Known(m) /\ access_rows[m].status = "inactive"
          /\ access_rows[m].last_login = access_rows[j].last_login
          /\ "STALE_ACCOUNT" \notin Issues(m)

\* ------------------------------------------------------------------- C4
\* the department_allowed cell that defines the role in policy_roles.csv
DefiningCell(role) ==
    LET ks == {k \in DOMAIN policy_file.rows : policy_file.rows[k].role = role}
        last == CHOOSE k \in ks : \A m \in ks : m <= k
    IN  Strip(policy_file.rows[last].department_allowed)

\* the departments a list names
Listed(cell) == {Strip(d) : d \in Range(SplitComma(cell))} \ {<<>>}

\* C4: for a row with a known role ROLE_NOT_ALLOWED_FOR_DEPARTMENT fires iff
\* the policy neither is the all-departments sentinel nor lists the row's
\* department; a listed department named "*" is not the sentinel.
C4_AsStated ==
    \A j \in Processed :
        Known(j) =>
            LET cell == DefiningCell(access_rows[j].role)
            IN  ("ROLE_NOT_ALLOWED_FOR_DEPARTMENT" \in Issues(j))
                    <=> (cell # <<"*">> /\ access_rows[j].department \notin Listed(cell))

\* ------------------------------------------------------------------- C5
\* C5: the days every STALE_ACCOUNT violation reports are the whole days
\* between the row's last_login and the one timestamp the cutoff was taken
\* from.
C5_AsStated ==
    \A k \in DOMAIN violations :
        violations[k].issue = "STALE_ACCOUNT" =>
            violations[k].details.days
                = Days(reference - access_rows[origin[k]].last_login[1])

\* ------------------------------------------------------------------- C6
\* C6: every PolicyRole of the catalog has a non-empty allowed_departments.
C6_AsStated ==
    \A role \in DOMAIN policy_roles : policy_roles[role].allowed_departments # {}

\* ------------------------------------------------------------------- C7
Rank(issue) ==
    CASE issue = "UNKNOWN_ROLE" -> 0
      [] issue = "ROLE_NOT_ALLOWED_FOR_DEPARTMENT" -> 1
      [] issue \in {"INVALID_STATUS", "INACTIVE_USER_HAS_ACCESS"} -> 2
      [] issue = "DUPLICATE_USER_ROLE_ENTRY" -> 3
      [] issue = "STALE_ACCOUNT" -> 4

\* C7: the violations are in the order of the rows they come from, each
\* carrying the fields of its row, and those of one row are in the order
\* department, status, duplicate, stale.
C7_OrderPreserved ==
    /\ \A k \in DOMAIN violations :
          LET r == access_rows[origin[k]]
          IN  /\ violations[k].user_id = r.user_id
              /\ violations[k].user_name = r.user_name
              /\ violations[k].department = r.department
              /\ violations[k].role = r.role
    /\ \A k, m \in DOMAIN violations :
          k < m =>
              /\ origin[k] <= origin[m]
              /\ origin[k] = origin[m]
                    => Rank(violations[k].issue) < Rank(violations[m].issue)

\* every row of a full batch with three violations
C7_Witness ==
    /\ Reviewed
    /\ Len(access_rows) = MaxRows
    /\ \A j \in Processed : Cardinality(At(j)) = 3

\* ------------------------------------------------------------------- C8
\* loading fails: a column is missing, a last_login is no date, a policy row
\* has an empty role or an empty department_allowed
AccessMalformed ==
    \/ AccessColumns \ access_file.fieldnames # {}
    \/ \E k \in DOMAIN access_file.rows : InvalidDate(access_file.rows[k])

PolicyMalformed ==
    \/ PolicyColumns \ policy_file.fieldnames # {}
    \/ \E k \in DOMAIN policy_file.rows :
          \/ policy_file.rows[k].role = ""
          \/ \A c \in Range(policy_file.rows[k].department_allowed) : IsSpace(c)

\* C8: when loading fails nothing is written, review_access has produced
\* nothing and main() returns non-zero; main() returns 0 only with the
\* violations written.
C8_NoOutputOnLoadFailure ==
    /\ (AccessMalformed \/ PolicyMalformed) =>
          /\ out_file = <<>>
          /\ violations = <<>>
          /\ exit_code # 0
          /\ pc = "done" => exit_code = 1
    /\ exit_code = 0 => out_file = <<HeaderLine>> \o violations

\* the access list loaded with rows, the catalog did not
C8_Witness ==
    /\ pc = "done"
    /\ ~AccessMalformed
    /\ PolicyMalformed
    /\ access_rows # <<>>
    /\ exit_code = 1
    /\ out_file = <<>>

\* ------------------------------------------------------------------- C9
\* C9: INVALID_STATUS and INACTIVE_USER_HAS_ACCESS never both fire for a row;
\* for a row with a known role the first fires exactly when the status is
\* neither "active" nor "inactive", the second exactly when it is "inactive".
C9_StatusRulesExclusive ==
    \A j \in Processed :
        /\ ~({"INVALID_STATUS", "INACTIVE_USER_HAS_ACCESS"} \subseteq Issues(j))
        /\ Known(j) =>
              /\ Times(j, "INVALID_STATUS")
                    = (IF access_rows[j].status \notin {"active", "inactive"} THEN 1 ELSE 0)
              /\ Times(j, "INACTIVE_USER_HAS_ACCESS")
                    = (IF access_rows[j].status = "inactive" THEN 1 ELSE 0)

\* a row of invalid status and a row of inactive status in one batch
C9_Witness ==
    /\ Reviewed
    /\ \E j, m \in Processed :
          /\ Known(j) /\ access_rows[j].status = "suspended"
          /\ Issues(j) = {"INVALID_STATUS"}
          /\ Known(m) /\ access_rows[m].status = "inactive"
          /\ "INACTIVE_USER_HAS_ACCESS" \in Issues(m)

\* ------------------------------------------------ find_duplicates alone
\* the AccessRows read_access_list can return
AccessRows == {AccessRow(c) : c \in {x \in AccessCells : ~InvalidDate(x)}}

DupInit ==
    /\ access_rows \in SeqUpTo(AccessRows, MaxDupRows)
    /\ pc = "find_duplicates"
    /\ duplicate_pairs = {}
    /\ access_file = [fieldnames |-> AccessColumns, rows |-> <<>>]
    /\ policy_file = [fieldnames |-> PolicyColumns, rows |-> <<>>]
    /\ now = 0
    /\ policy_roles = NoCatalog
    /\ stale_cutoff = 0
    /\ reference = 0
    /\ idx = 0
    /\ violations = <<>>
    /\ origin = <<>>
    /\ out_file = <<>>
    /\ stdout = Summary(<<>>)
    /\ stderr = NoError
    /\ exit_code = -1

\* duplicate_pairs = find_duplicates(access_rows)
FindDuplicates ==
    /\ pc = "find_duplicates"
    /\ duplicate_pairs' = find_duplicates(access_rows)
    /\ pc' = "found"
    /\ UNCHANGED <<access_file, policy_file, now, access_rows, policy_roles,
                   stale_cutoff, reference, idx, violations, origin, out_file,
                   stdout, stderr, exit_code>>

\* the call again with two neighbouring rows of the batch exchanged
FindDuplicatesReordered ==
    /\ pc = "found"
    /\ \E j \in 1..(Len(access_rows) - 1) :
          access_rows' = [access_rows EXCEPT ![j] = access_rows[j + 1],
                                             ![j + 1] = access_rows[j]]
    /\ duplicate_pairs' = find_duplicates(access_rows')
    /\ UNCHANGED <<access_file, policy_file, now, pc, policy_roles, stale_cutoff,
                   reference, idx, violations, origin, out_file, stdout, stderr,
                   exit_code>>

\* the call again with a row of a repeated pair once more in the batch
FindDuplicatesRepeated ==
    /\ pc = "found"
    /\ Len(access_rows) < MaxDupRows
    /\ \E j \in DOMAIN access_rows :
          /\ <<access_rows[j].user_id, access_rows[j].role>> \in duplicate_pairs
          /\ access_rows' = Append(access_rows, access_rows[j])
    /\ duplicate_pairs' = find_duplicates(access_rows')
    /\ UNCHANGED <<access_file, policy_file, now, pc, policy_roles, stale_cutoff,
                   reference, idx, violations, origin, out_file, stdout, stderr,
                   exit_code>>

DupNext ==
    \/ FindDuplicates
    \/ FindDuplicatesReordered
    \/ FindDuplicatesRepeated

SpecDup == DupInit /\ [][DupNext]_vars

\* ------------------------------------------------------------------ C10
\* the pairs that occur at least twice in the batch
RepeatedPairs ==
    {p \in UserIds \X RoleNames :
        Cardinality({m \in DOMAIN access_rows :
                        <<access_rows[m].user_id, access_rows[m].role>> = p}) >= 2}

\* C10: find_duplicates returns exactly the pairs that occur at least twice,
\* whatever the order of the rows and however often a pair repeats; nothing
\* for an empty batch.
C10_ExactlyRepeatedPairs ==
    pc = "found" =>
        /\ duplicate_pairs = RepeatedPairs
        /\ access_rows = <<>> => duplicate_pairs = {}

\* a pair at the first and the last row of a batch, rows of the other user
\* in between
C10_Witness ==
    /\ pc = "found"
    /\ Len(access_rows) = MaxDupRows
    /\ access_rows[MaxDupRows].user_id = access_rows[1].user_id
    /\ access_rows[MaxDupRows].role = access_rows[1].role
    /\ \A j \in 2..(MaxDupRows - 1) : access_rows[j].user_id # access_rows[1].user_id
    /\ <<access_rows[1].user_id, access_rows[1].role>> \in duplicate_pairs

====
